---- MODULE Spec2Model ----
(***************************************************************************)
(* Exercise-Tracker: the four API route handlers of src/index.js over the  *)
(* two collections of the document store (Users, Exercises).               *)
(*                                                                         *)
(* A handler runs atomically between two awaits, so each handler is cut at *)
(* its store calls: the segment up to and including the first store call   *)
(* that decides the request (the lookup), and the segment made of the      *)
(* second store call and the response.  Requests between their two         *)
(* segments sit in the bag `pending`, and segments of different requests   *)
(* interleave freely.                                                      *)
(*                                                                         *)
(* Request values arrive as strings; a missing value and the empty string  *)
(* are both falsy in every test the handlers make, and are one value here. *)
(***************************************************************************)
EXTENDS Integers, Sequences, FiniteSets, Bags, TLC

\* ------------------------------------------------------------- bounds
\* Requests started in one behaviour.
MaxRequests == 2
\* Instants of the clock are 0 .. MaxTick.
MaxTick == 2
\* Instants per calendar day: a date string parses to the first instant of its day.
TicksPerDay == 2

\* ---------------------------------------------------------- constants
\* err.code of the store's duplicate key error.
DuplicateKeyCode == 11000

Absent == ""

\* Identifiers the store hands out, in order of creation (24 hex digits each).
ObjectIds ==
  << "650000000000000000000001", "650000000000000000000002",
     "650000000000000000000003", "650000000000000000000004",
     "650000000000000000000005", "650000000000000000000006" >>

\* A path parameter that is no ObjectId.
MalformedId == "abc"

\* ------------------------------------------------------- request inputs
Usernames == {Absent, "alice", "bob"}
PathIds == {ObjectIds[1], ObjectIds[2], MalformedId}
Descriptions == {Absent, "run"}
Durations == {Absent, "abc", "30"}
DateStrings == {Absent, "2023-13-40", "2024-01-01", "2024-01-02"}
Limits == {Absent, "abc", "0", "-1", "1", "2"}

VARIABLES
  users,      \* the Users collection, in insertion order: [_id, username]
  exercises,  \* the Exercises collection, in insertion order
  pending,    \* bag of requests waiting for their second store call
  started,    \* number of requests started
  returned,   \* history: the <<username, _id>> answered 200 by POST /api/users, in order
  last        \* the segment that just ran: its request and its response

vars == <<users, exercises, pending, started, returned, last>>

\* ------------------------------------------------------------ helpers
Falsy(v) == v = Absent

Range(s) == {s[i] : i \in 1..Len(s)}

NoReq ==
  [username |-> Absent, userId |-> Absent, description |-> Absent,
   duration |-> Absent, date |-> Absent, from |-> Absent, to |-> Absent,
   limit |-> Absent]

NoBody ==
  [_id |-> Absent, username |-> Absent, date |-> Absent, duration |-> 0,
   description |-> Absent, count |-> 0, log |-> << >>, users |-> << >>,
   error |-> Absent]

NoUser == [_id |-> Absent, username |-> Absent]

\* The observation of one segment of a handler: seg 1 runs from the request
\* to the end of the first store call's continuation, seg 2 is the second
\* store call and the response.  status 0: the segment ended in an await, no
\* response yet.  found: the lookup of seg 1 returned a document.  rows: the
\* documents query.exec() returned.
Event(op, seg, req, status, body, found, rows) ==
  [op |-> op, seg |-> seg, req |-> req, status |-> status, body |-> body,
   found |-> found, rows |-> rows]

NoEvent == Event("none", 0, NoReq, 0, NoBody, FALSE, << >>)

Error(msg) == [NoBody EXCEPT !.error = msg]

\* `last` observes the segment that just ran and is no state of the program.
\* A segment runs to its end, response included, before the event loop runs
\* another; Observed clears the observation before the next segment starts.
Ready == last = NoEvent

\* A new request may start while the budget lasts.
CanStart == Ready /\ started < MaxRequests

Observed ==
  /\ last # NoEvent
  /\ last' = NoEvent
  /\ UNCHANGED <<users, exercises, pending, started, returned>>

\* ------------------------------------------------- conversions
\* Number(s): the number a request string denotes, or NaN.
Number(s) ==
  CASE s = "30" -> [isNaN |-> FALSE, n |-> 30]
    [] s = "2"  -> [isNaN |-> FALSE, n |-> 2]
    [] s = "1"  -> [isNaN |-> FALSE, n |-> 1]
    [] s = "0"  -> [isNaN |-> FALSE, n |-> 0]
    [] s = "-1" -> [isNaN |-> FALSE, n |-> 0 - 1]
    [] OTHER    -> [isNaN |-> TRUE, n |-> 0]

\* new Date(s): the instant a date string denotes (midnight of its day), or
\* Invalid Date.
NewDate(s) ==
  CASE s = "2024-01-01" -> [valid |-> TRUE, t |-> 0]
    [] s = "2024-01-02" -> [valid |-> TRUE, t |-> TicksPerDay]
    [] OTHER            -> [valid |-> FALSE, t |-> 0]

\* new Date(): any instant of the clock.
Instants == 0..MaxTick

\* Date.prototype.toDateString(): the day of an instant, time of day dropped.
ToDateString(t) ==
  << "Mon Jan 01 2024", "Tue Jan 02 2024", "Wed Jan 03 2024" >>[(t \div TicksPerDay) + 1]

\* ------------------------------------------------------------ the store
\* The unique index on User.username: an insert of a username already stored
\* is rejected.
\* Variant: the collection without the index.
UniqueIndexOff(us, username) == FALSE

UniqueIndexViolated(us, username) ==
  \E i \in 1..Len(us) : us[i].username = username

\* User.findOne({ username }): the matching documents (none or, the index
\* holding, one); the handler gets one of them or null.
\* Variant: the existence-check left out.
FindOneNothing(us, username) == {}

FindOne(us, username) ==
  {u \in Range(us) : u.username = username}

\* new User({ username }).save(): the stored document gets the next ObjectId.
NewUser(us, username) ==
  [_id |-> ObjectIds[Len(us) + 1], username |-> username]

\* User.findById(id) throws a CastError for a value that is no ObjectId.
IsObjectId(id) == id \in Range(ObjectIds)

\* User.findById(id): the matching documents (none when the id is unknown:
\* the handler gets null).
FindById(us, id) ==
  {u \in Range(us) : u._id = id}

\* `if (!user)` after User.findById.
\* Variant: the check left out.
UserMissingNever(us, id) == FALSE

UserMissing(us, id) == FindById(us, id) = {}

UserOf(us, id) ==
  IF FindById(us, id) = {} THEN NoUser ELSE CHOOSE u \in FindById(us, id) : TRUE

\* newExercise.save(): the collection with the document inserted; the store
\* numbers the documents it is given (_id).
\* Variant: an upsert keyed by userId in place of an insert.
SaveOverwrites(exs, doc) ==
  LET keep == SelectSeq(exs, LAMBDA e : e.userId # doc.userId)
  IN Append(keep, [doc EXCEPT !._id = Len(keep) + 1])

SaveExercise(exs, doc) ==
  Append(exs, [doc EXCEPT !._id = Len(exs) + 1])

\* ------------------------------------------------- POST /api/users
\* The catch block: the status answered for a rejected save.
\* Variant: the catch block without the test of err.code.
RegisterCatchAlways500(code) == 500

RegisterCatchStatus(code) ==
  IF code = DuplicateKeyCode THEN 409 ELSE 500

\* From the request to the answer of User.findOne.
RegisterFind(username) ==
  /\ CanStart
  /\ started' = started + 1
  /\ UNCHANGED <<users, exercises>>
  /\ LET req == [NoReq EXCEPT !.username = username] IN
     IF Falsy(username)
     THEN /\ last' = Event("register", 1, req, 400, Error("Username is required"),
                           FALSE, << >>)
          /\ UNCHANGED <<pending, returned>>
     ELSE IF FindOne(users, username) # {}
     THEN \E existingUser \in FindOne(users, username) :
            /\ last' = Event("register", 1, req, 200,
                             [NoBody EXCEPT !.username = existingUser.username,
                                            !._id = existingUser._id],
                             TRUE, << >>)
            /\ returned' = Append(returned, <<existingUser.username, existingUser._id>>)
            /\ UNCHANGED pending
     ELSE /\ pending' = pending (+) SetToBag({[op |-> "register", req |-> req]})
          /\ last' = Event("register", 1, req, 0, NoBody, FALSE, << >>)
          /\ UNCHANGED returned

\* newUser.save() and the response, or the catch block.
RegisterSave(p) ==
  /\ Ready
  /\ BagIn(p, pending)
  /\ p.op = "register"
  /\ pending' = pending (-) SetToBag({p})
  /\ UNCHANGED <<exercises, started>>
  /\ IF UniqueIndexViolated(users, p.req.username)
     THEN /\ last' = Event("register", 2, p.req, RegisterCatchStatus(DuplicateKeyCode),
                           Error(IF RegisterCatchStatus(DuplicateKeyCode) = 409
                                 THEN "Username already exists"
                                 ELSE "User creation failed"),
                           FALSE, << >>)
          /\ UNCHANGED <<users, returned>>
     ELSE LET savedUser == NewUser(users, p.req.username) IN
          /\ users' = Append(users, savedUser)
          /\ last' = Event("register", 2, p.req, 200,
                           [NoBody EXCEPT !.username = savedUser.username,
                                          !._id = savedUser._id],
                           FALSE, << >>)
          /\ returned' = Append(returned, <<savedUser.username, savedUser._id>>)

\* ------------------------------------------------- GET /api/users
ListUsers ==
  /\ CanStart
  /\ started' = started + 1
  /\ last' = Event("list", 1, NoReq, 200, [NoBody EXCEPT !.users = users], FALSE, << >>)
  /\ UNCHANGED <<users, exercises, pending, returned>>

\* ------------------------------------------------- POST /api/users/:_id/exercises
\* What the handler decides before the save, in the order of its checks:
\* status 0 is "go on to the save" with the document to save.
ExerciseDecide(us, req, now) ==
  LET nodoc == [_id |-> 0, userId |-> Absent, description |-> Absent,
                duration |-> 0, date |-> 0]
      fail(st, msg) == [status |-> st, error |-> msg, user |-> NoUser, doc |-> nodoc]
  IN
  IF Falsy(req.description) \/ Falsy(req.duration)
  THEN fail(400, "Description and duration are required")
  ELSE IF Number(req.duration).isNaN
  THEN fail(400, "Duration must be a number")
  ELSE IF ~IsObjectId(req.userId)
  THEN fail(500, "Exercise could not be added")
  ELSE IF UserMissing(us, req.userId)
  THEN fail(404, "User not found")
  ELSE IF ~Falsy(req.date) /\ ~NewDate(req.date).valid
  THEN fail(400, "Invalid date format. Use YYYY-MM-DD")
  ELSE [status |-> 0, error |-> Absent,
        user |-> UserOf(us, req.userId),
        doc |-> [_id |-> 0, userId |-> req.userId, description |-> req.description,
                 duration |-> Number(req.duration).n,
                 date |-> IF Falsy(req.date) THEN now ELSE NewDate(req.date).t]]

\* From the request to the end of validation (its one store call is
\* User.findById).
ExerciseFind(userId, description, duration, date, now) ==
  /\ CanStart
  /\ started' = started + 1
  /\ UNCHANGED <<users, exercises, returned>>
  /\ LET req == [NoReq EXCEPT !.userId = userId, !.description = description,
                              !.duration = duration, !.date = date]
         d == ExerciseDecide(users, req, now)
     IN IF d.status # 0
        THEN /\ last' = Event("exercise", 1, req, d.status, Error(d.error), FALSE, << >>)
             /\ UNCHANGED pending
        ELSE /\ pending' = pending (+)
                   SetToBag({[op |-> "exercise", req |-> req, user |-> d.user, doc |-> d.doc]})
             /\ last' = Event("exercise", 1, req, 0, NoBody, TRUE, << >>)

\* The response after newExercise.save() resolved.
\* Variant: building the response throws, and the catch block answers.
ExerciseRespondThrows(user, savedExercise) ==
  [status |-> 500, body |-> Error("Exercise could not be added")]

ExerciseRespond(user, savedExercise) ==
  [status |-> 200,
   body |-> [NoBody EXCEPT !._id = user._id, !.username = user.username,
                           !.date = ToDateString(savedExercise.date),
                           !.duration = savedExercise.duration,
                           !.description = savedExercise.description]]

\* newExercise.save() and the response.
ExerciseSave(p) ==
  /\ Ready
  /\ BagIn(p, pending)
  /\ p.op = "exercise"
  /\ pending' = pending (-) SetToBag({p})
  /\ UNCHANGED <<users, started, returned>>
  /\ exercises' = SaveExercise(exercises, p.doc)
  /\ LET savedExercise == exercises'[Len(exercises')]
         r == ExerciseRespond(p.user, savedExercise)
     IN last' = Event("exercise", 2, p.req, r.status, r.body, TRUE, << >>)

\* ------------------------------------------------- GET /api/users/:_id/logs
\* What the handler decides before query.exec(), in the order of its checks:
\* status 0 is "run the query" with the filter and the limit built
\* (hasGte / hasLte: whether dateFilter got $gte / $lte; limit 0: no .limit()).
LogsDecide(us, req) ==
  LET noq == [userId |-> Absent, hasGte |-> FALSE, gte |-> 0,
              hasLte |-> FALSE, lte |-> 0, limit |-> 0]
      fail(st, msg) == [status |-> st, error |-> msg, user |-> NoUser, query |-> noq]
  IN
  IF ~IsObjectId(req.userId)
  THEN fail(500, "Could not retrieve logs")
  ELSE IF UserMissing(us, req.userId)
  THEN fail(404, "User not found")
  ELSE IF ~Falsy(req.from) /\ ~NewDate(req.from).valid
  THEN fail(400, "Invalid \"from\" date format. Use YYYY-MM-DD")
  ELSE IF ~Falsy(req.to) /\ ~NewDate(req.to).valid
  THEN fail(400, "Invalid \"to\" date format. Use YYYY-MM-DD")
  ELSE IF ~Falsy(req.limit) /\ (Number(req.limit).isNaN \/ Number(req.limit).n <= 0)
  THEN fail(400, "Limit must be a positive number")
  ELSE [status |-> 0, error |-> Absent,
        user |-> UserOf(us, req.userId),
        query |-> [userId |-> req.userId,
                   hasGte |-> ~Falsy(req.from),
                   gte |-> IF Falsy(req.from) THEN 0 ELSE NewDate(req.from).t,
                   hasLte |-> ~Falsy(req.to),
                   lte |-> IF Falsy(req.to) THEN 0 ELSE NewDate(req.to).t,
                   limit |-> IF Falsy(req.limit) THEN 0 ELSE Number(req.limit).n]]

\* The filter { userId, date: { $gte, $lte } } applied to one document.
\* Variant: the filter without userId.
MatchesAnyUser(q, e) ==
  /\ q.hasGte => e.date >= q.gte
  /\ q.hasLte => e.date <= q.lte

Matches(q, e) ==
  /\ e.userId = q.userId
  /\ q.hasGte => e.date >= q.gte
  /\ q.hasLte => e.date <= q.lte

\* .select('description duration date'): the fields of a document returned
\* (_id comes with every projection).
Select(e) ==
  [_id |-> e._id, description |-> e.description, duration |-> e.duration,
   date |-> e.date]

\* Exercise.find(filter): the positions of the matching documents.
Matching(exs, q) == {i \in 1..Len(exs) : Matches(q, exs[i])}

\* .sort({ date: 1 }): the matching documents in an order of non-decreasing
\* date; the store leaves the order of equal dates open.
SortByDate(exs, q) ==
  LET m == Matching(exs, q)
      n == Cardinality(m)
  IN {[k \in 1..n |-> Select(exs[f[k]])] :
        f \in {g \in [1..n -> m] :
                 /\ \A a, b \in 1..n : a # b => g[a] # g[b]
                 /\ \A a, b \in 1..n : a < b => exs[g[a]].date <= exs[g[b]].date}}

\* .limit(n): the first n documents.
\* Variant: the limit not applied.
LimitIgnored(rows, n) == rows

Limit(rows, n) ==
  IF n > 0 /\ n < Len(rows) THEN SubSeq(rows, 1, n) ELSE rows

\* exercises.map(...): the projection of the documents returned.
LogOf(rows) ==
  [k \in 1..Len(rows) |->
     [description |-> rows[k].description, duration |-> rows[k].duration,
      date |-> ToDateString(rows[k].date)]]

\* From the request to the end of validation (its one store call is
\* User.findById).
LogsFind(userId, from, to, limit) ==
  /\ CanStart
  /\ started' = started + 1
  /\ UNCHANGED <<users, exercises, returned>>
  /\ LET req == [NoReq EXCEPT !.userId = userId, !.from = from, !.to = to,
                              !.limit = limit]
         d == LogsDecide(users, req)
     IN IF d.status # 0
        THEN /\ last' = Event("logs", 1, req, d.status, Error(d.error), FALSE, << >>)
             /\ UNCHANGED pending
        ELSE /\ pending' = pending (+)
                   SetToBag({[op |-> "logs", req |-> req, user |-> d.user, query |-> d.query]})
             /\ last' = Event("logs", 1, req, 0, NoBody, TRUE, << >>)

\* query.exec() and the response.
LogsExec(p) ==
  /\ Ready
  /\ BagIn(p, pending)
  /\ p.op = "logs"
  /\ pending' = pending (-) SetToBag({p})
  /\ UNCHANGED <<users, exercises, started, returned>>
  /\ \E sorted \in SortByDate(exercises, p.query) :
       LET rows == Limit(sorted, p.query.limit) IN
       last' = Event("logs", 2, p.req, 200,
                     [NoBody EXCEPT !._id = p.user._id, !.username = p.user.username,
                                    !.count = Len(rows), !.log = LogOf(rows)],
                     TRUE, rows)

\* ------------------------------------------------- the specification
\* A document as POST /api/users/:_id/exercises stores it.
Doc(k, date) ==
  [_id |-> 0, userId |-> ObjectIds[k], description |-> "run", duration |-> 30,
   date |-> date]

\* What the database may hold when the server starts, left there by earlier
\* requests: nothing; one user; two users with exercises stored out of date
\* order, two of them of the same instant.
Stores ==
  { [users |-> << >>, exercises |-> << >>],
    [users |-> << NewUser(<< >>, "alice") >>, exercises |-> << >>],
    [users |-> << NewUser(<< >>, "alice"), NewUser(<< 1 >>, "bob") >>,
     exercises |-> SaveExercise(SaveExercise(SaveExercise(SaveExercise(<< >>,
                     Doc(1, TicksPerDay)), Doc(2, 1)), Doc(1, 0)), Doc(1, 0))] }

Init ==
  /\ \E s \in Stores : users = s.users /\ exercises = s.exercises
  /\ pending = EmptyBag
  /\ started = 0
  /\ returned = << >>
  /\ last = NoEvent

Next ==
  \/ CanStart /\ \E username \in Usernames : RegisterFind(username)
  \/ Ready /\ \E p \in BagToSet(pending) : RegisterSave(p)
  \/ ListUsers
  \/ CanStart /\ \E userId \in PathIds, description \in Descriptions, duration \in Durations,
                    date \in DateStrings, now \in Instants :
                    ExerciseFind(userId, description, duration, date, now)
  \/ Ready /\ \E p \in BagToSet(pending) : ExerciseSave(p)
  \/ CanStart /\ \E userId \in PathIds, from \in DateStrings, to \in DateStrings,
                    limit \in Limits :
                    LogsFind(userId, from, to, limit)
  \/ Ready /\ \E p \in BagToSet(pending) : LogsExec(p)
  \/ Observed

Spec == Init /\ [][Next]_vars

\* ------------------------------------------------- properties
IsPrefix(s, t) == Len(s) <= Len(t) /\ SubSeq(t, 1, Len(s)) = s

Min(a, b) == IF a <= b THEN a ELSE b

UsersNamed(us, username) == {i \in 1..Len(us) : us[i].username = username}

\* The segment observed is the response of a fetch-log request that succeeded.
LogsAnswered == last.op = "logs" /\ last.seg = 2 /\ last.status = 200

\* The stored Exercises of the requested user inside the bounds the request
\* supplies (those it does not supply are not applied).
InRange(e, req) ==
  /\ e.userId = req.userId
  /\ ~Falsy(req.from) => e.date >= NewDate(req.from).t
  /\ ~Falsy(req.to) => e.date <= NewDate(req.to).t

MatchingIds(req) == {e._id : e \in {x \in Range(exercises) : InRange(x, req)}}

RowIds == {last.rows[k]._id : k \in 1..Len(last.rows)}

\* C1: in every reachable state, however register requests interleave between
\* their existence-check and their insert, no two stored Users have the same
\* username.
C1_UniqueUsernames ==
  \A i, j \in 1..Len(users) : i # j => users[i].username # users[j].username

\* C1 witness: a register request passed its existence-check, is still
\* waiting for its insert, and its username has been stored meanwhile.
C1_RaceUnderWay ==
  \E p \in BagToSet(pending) :
    p.op = "register" /\ FindOne(users, p.req.username) # {}

\* C2: a register request that starts when its username is already stored
\* answers 200 with the stored User's id, writes nothing and leaves exactly
\* one User of that name; and all 200 answers for one username carry one id.
C2_RegisterIdempotent ==
  [][ /\ ( /\ last'.op = "register" /\ last'.seg = 1
           /\ UsersNamed(users, last'.req.username) # {} )
         => /\ last'.status = 200
            /\ \E i \in UsersNamed(users, last'.req.username) :
                 users[i]._id = last'.body._id
            /\ users' = users /\ exercises' = exercises /\ pending' = pending
            /\ Cardinality(UsersNamed(users', last'.req.username)) = 1
      /\ \A i, j \in 1..Len(returned') :
           returned'[i][1] = returned'[j][1] => returned'[i][2] = returned'[j][2]
    ]_vars

\* C2 witness: "bob" was registered into the empty store and registered again
\* after that; both answers are the same <<username, id>>.
C2_RegisteredTwice ==
  /\ Len(users) = 1 /\ users[1].username = "bob"
  /\ Len(returned) = 2 /\ returned[1] = returned[2]
  /\ last.op = "register" /\ last.found

\* C3: a register request whose existence-check found nothing and whose
\* insert the store rejects answers 409; and a register request answers 200
\* with the id of a User stored before its answer only from its own
\* existence-check having found that User.
C3_ConflictIs409 ==
  [][ last'.op = "register" =>
        /\ (last'.seg = 2 /\ users' = users) => last'.status = 409
        /\ last'.seg = 2 => ~last'.found
        /\ (last'.status = 200 /\ \E u \in Range(users) : u._id = last'.body._id)
             => /\ last'.seg = 1 /\ last'.found
                /\ \E u \in Range(users) :
                     u._id = last'.body._id /\ u.username = last'.req.username
    ]_vars

\* C3 witness: a register request lost the race and was answered 409.
C3_RaceLost ==
  /\ last.op = "register" /\ last.seg = 2 /\ last.status = 409
  /\ FindOne(users, last.req.username) # {}

\* The status the first failure in the claimed order gives a log-exercise
\* request (0: none fails).
ExerciseClaimedStatus(req) ==
  IF Falsy(req.description) \/ Falsy(req.duration) THEN 400
  ELSE IF Number(req.duration).isNaN THEN 400
  ELSE IF ~\E u \in Range(users) : u._id = req.userId THEN 404
  ELSE IF ~Falsy(req.date) /\ ~NewDate(req.date).valid THEN 400
  ELSE 0

\* C4: log exercise answers the first failure in the order (1) description
\* or duration missing -> 400, (2) duration not a number -> 400, (3) userId
\* resolves to no User -> 404, (4) date present and invalid -> 400, for every
\* combination of inputs.
C4_ExerciseFirstFailure ==
  (last.op = "exercise" /\ last.seg = 1)
    => last.status = ExerciseClaimedStatus(last.req)

\* C4, for the path parameters that are ObjectIds: the order holds.
C4_ExerciseFirstFailureObjectId ==
  (last.op = "exercise" /\ last.seg = 1 /\ IsObjectId(last.req.userId))
    => last.status = ExerciseClaimedStatus(last.req)

\* C5: a log-exercise segment that answers an error, or that ends before the
\* save, leaves Users and Exercises as they were; the one that answers 200
\* inserted exactly one Exercise; and no other segment inserts an Exercise.
C5_ErrorsWriteNothing ==
  [][ /\ last'.op = "exercise" =>
           IF last'.status = 200
           THEN /\ Len(exercises') = Len(exercises) + 1
                /\ IsPrefix(exercises, exercises')
                /\ users' = users
           ELSE exercises' = exercises /\ users' = users
      /\ exercises' # exercises => (last'.op = "exercise" /\ last'.status = 200)
    ]_vars

\* C5 witness: a request for a stored user with date "2023-13-40" was
\* answered 400.
C5_InvalidDateRefused ==
  /\ last.op = "exercise" /\ last.status = 400
  /\ last.req.date = "2023-13-40"
  /\ ~Falsy(last.req.description) /\ ~Number(last.req.duration).isNaN
  /\ FindById(users, last.req.userId) # {}

\* The status the first failure in the claimed order gives a fetch-log
\* request (0: none fails).
LogsClaimedStatus(req) ==
  IF ~\E u \in Range(users) : u._id = req.userId THEN 404
  ELSE IF ~Falsy(req.from) /\ ~NewDate(req.from).valid THEN 400
  ELSE IF ~Falsy(req.to) /\ ~NewDate(req.to).valid THEN 400
  ELSE IF ~Falsy(req.limit) /\ (Number(req.limit).isNaN \/ Number(req.limit).n <= 0) THEN 400
  ELSE 0

\* C6: fetch exercise log answers the first failure in the order: userId
\* resolves to no User -> 404 whatever from, to and limit are, from invalid
\* -> 400, to invalid -> 400, limit not a positive number -> 400; and a
\* failing request returns no log.
C6_LogsFirstFailure ==
  (last.op = "logs" /\ last.seg = 1)
    => /\ last.status = LogsClaimedStatus(last.req)
       /\ last.body.log = << >> /\ last.rows = << >>

\* C6, for the path parameters that are ObjectIds: the order holds.
C6_LogsFirstFailureObjectId ==
  (last.op = "logs" /\ last.seg = 1 /\ IsObjectId(last.req.userId))
    => /\ last.status = LogsClaimedStatus(last.req)
       /\ last.body.log = << >> /\ last.rows = << >>

\* C7: a returned log holds only stored Exercises of the requested user whose
\* date satisfies each bound supplied (inclusive), in non-decreasing date
\* order; without a limit it holds all of them, so a bound not supplied is
\* not applied.
C7_LogFilteredAndSorted ==
  LogsAnswered =>
    /\ \A k \in 1..Len(last.rows) :
         \E e \in Range(exercises) :
           /\ e._id = last.rows[k]._id /\ e.date = last.rows[k].date
           /\ e.userId = last.req.userId
           /\ ~Falsy(last.req.from) => e.date >= NewDate(last.req.from).t
           /\ ~Falsy(last.req.to) => e.date <= NewDate(last.req.to).t
    /\ \A a, b \in 1..Len(last.rows) : a < b => last.rows[a].date <= last.rows[b].date
    /\ Len(last.body.log) = Len(last.rows)
    /\ \A k \in 1..Len(last.rows) :
         /\ last.body.log[k].date = ToDateString(last.rows[k].date)
         /\ last.body.log[k].duration = last.rows[k].duration
         /\ last.body.log[k].description = last.rows[k].description
    /\ Falsy(last.req.limit) => RowIds = MatchingIds(last.req)

\* C7 witness: a log with both bounds supplied that holds two Exercises of
\* the same instant and leaves out an Exercise of the user outside the bounds.
C7_BoundedLog ==
  /\ LogsAnswered
  /\ ~Falsy(last.req.from) /\ ~Falsy(last.req.to)
  /\ Len(last.rows) = 2
  /\ \E e \in Range(exercises) : e.userId = last.req.userId /\ e._id \notin RowIds

\* C8: with limit k > 0 the log is the first min(k, matching_count) entries
\* of a date-ascending sequence of the matching Exercises: that many distinct
\* matching Exercises, in date order, none later than a matching Exercise left
\* out; and count is the number of entries of log, limit or not.
C8_LimitedLog ==
  LogsAnswered =>
    /\ last.body.count = Len(last.body.log)
    /\ ~Falsy(last.req.limit) =>
         LET k == Number(last.req.limit).n
             n == Len(last.rows)
         IN /\ k > 0
            /\ n <= k
            /\ n = Min(k, Cardinality(MatchingIds(last.req)))
            /\ Len(last.body.log) = n
            /\ Cardinality(RowIds) = n
            /\ RowIds \subseteq MatchingIds(last.req)
            /\ \A a, b \in 1..n : a < b => last.rows[a].date <= last.rows[b].date
            /\ \A e \in Range(exercises) :
                 (InRange(e, last.req) /\ e._id \notin RowIds)
                   => \A a \in 1..n : last.rows[a].date <= e.date

\* C8 witness: limit 2 cut a log of three matching Exercises to two.
C8_LimitCuts ==
  /\ LogsAnswered
  /\ last.req.limit = "2"
  /\ Len(last.rows) = 2
  /\ Cardinality(MatchingIds(last.req)) = 3

\* C9: Users and Exercises only grow, a stored record never changes; list
\* users and fetch exercise log leave the store as it was; a step inserts at
\* most one record, and only as the last segment of its request.
C9_StoreOnlyGrows ==
  [][ /\ IsPrefix(users, users') /\ IsPrefix(exercises, exercises')
      /\ (Len(users') - Len(users)) + (Len(exercises') - Len(exercises)) <= 1
      /\ last'.op \in {"list", "logs"} => (users' = users /\ exercises' = exercises)
      /\ (users' # users \/ exercises' # exercises)
           => /\ last'.seg = 2
              /\ BagCardinality(pending') = BagCardinality(pending) - 1
    ]_vars

\* C9 witness: an Exercise was added to the four stored at the start and a
\* log was fetched after that.
C9_GrownAndRead ==
  /\ LogsAnswered
  /\ Len(exercises) = 5 /\ Len(users) = 2

\* C10: in every reachable state, however register and log-exercise requests
\* interleave, every stored Exercise's userId is the id of a stored User.
C10_ExerciseHasUser ==
  \A i \in 1..Len(exercises) :
    \E u \in Range(users) : u._id = exercises[i].userId

\* C10 witness: an Exercise was saved while a register request was waiting
\* for its insert.
C10_SavedDuringRegister ==
  /\ last.op = "exercise" /\ last.seg = 2 /\ last.status = 200
  /\ \E p \in BagToSet(pending) : p.op = "register"
====
